---- MODULE Spec2Model ----
(***************************************************************************)
(* Model of the pest_parser attribute macro (src/src/lib.rs).              *)
(*                                                                         *)
(* Source text is modelled as a sequence of tokens [t, v].  A raw          *)
(* identifier r#name is one token of kind "raw"; whitespace is kept as a   *)
(* token of kind "ws" wherever a pattern of the rewriter can see it.       *)
(* The grammar compiler (pest_generator::derive_parser) is external: its   *)
(* output is rendered in the shape the comments of lib.rs document, and    *)
(* the record env holds the ways in which that shape may vary.             *)
(***************************************************************************)
EXTENDS Integers, Sequences, FiniteSets, TLC

VARIABLES
    args,       \* the attribute's argument list, a sequence of [key, value]
    env,        \* the shape of the grammar compiler's output
    run,        \* 1: first invocation, 2: the invocation with the arguments swapped
    pc,         \* position inside pest_parser
    failure,    \* which stage aborted the pipeline: "none", "args", "tag", "hook"
    calls,      \* the derive_parser invocations so far, [full, grammar]
    grammar_file,
    interface,
    raw_enum,   \* the slice enum_dispatch_tag_generator hands to parse_str
    ast_part2,  \* result of enum_dispatch_tag_generator
    stages,     \* raw_codes of the hooker: as compiled, then after each rewrite
    ast_part3,  \* result of enum_dispatch_generated_enum_hooker
    output,     \* the token stream pest_parser returns
    prev        \* outcome of the first invocation, kept for the second

vars == <<args, env, run, pc, failure, calls, grammar_file, interface,
          raw_enum, ast_part2, stages, ast_part3, output, prev>>

(***************************************************************************)
(* Bounds                                                                  *)
(***************************************************************************)
MaxArgs == 3
MaxRules == 2

(***************************************************************************)
(* Tokens                                                                  *)
(***************************************************************************)
P(s) == [t |-> "p", v |-> s]
Id(s) == [t |-> "id", v |-> s]
Raw(s) == [t |-> "raw", v |-> s]
Attr(s) == [t |-> "attr", v |-> s]
Ws(s) == [t |-> "ws", v |-> s]
Txt(s) == [t |-> "txt", v |-> s]
Eof == [t |-> "eof", v |-> ""]

Tok(s, i) == IF i \in 1..Len(s) THEN s[i] ELSE Eof

Marker == Attr("#[allow(dead_code, non_camel_case_types, clippy :: upper_case_acronyms)]")
DeriveOpen == Attr("#[derive(")
DeriveList == Attr("Clone, Copy, Debug, Eq, Hash, Ord, PartialEq, PartialOrd)]")
Sentinel == "EOI"

AltTok(a) == IF a = Sentinel THEN Id(a) ELSE Raw(a)

RECURSIVE Join(_, _)
Join(items, sep) ==
    IF Len(items) = 0 THEN <<>>
    ELSE IF Len(items) = 1 THEN items[1]
    ELSE items[1] \o sep \o Join(Tail(items), sep)

RECURSIVE Flatten(_)
Flatten(items) == IF Len(items) = 0 THEN <<>> ELSE items[1] \o Flatten(Tail(items))

NoWs(s) == SelectSeq(s, LAMBDA x : x.t # "ws")

\* str::find: index of the first occurrence, 0 for None
FindTok(s, tok) ==
    IF \E i \in 1..Len(s) : s[i] = tok
    THEN CHOOSE i \in 1..Len(s) : s[i] = tok /\ \A j \in 1..(i-1) : s[j] # tok
    ELSE 0

(***************************************************************************)
(* Invocation arguments                                                    *)
(***************************************************************************)
RuleName(j) == "R" \o ToString(j)
GrammarFile(k) == "g" \o ToString(k) \o ".pest"
GrammarFiles == {GrammarFile(k) : k \in 0..MaxRules}
InterfaceName == "ParserInterface"
NotAString == "<not a string literal>"
PathKey == "<not an identifier>"

ArgPool ==
    {[key |-> "grammar", value |-> g] : g \in GrammarFiles \cup {NotAString}}
    \cup {[key |-> "interface", value |-> InterfaceName],
          [key |-> "interface", value |-> GrammarFile(0)],
          [key |-> "foo", value |-> InterfaceName],
          [key |-> PathKey, value |-> InterfaceName]}

ArgLists == UNION {[1..n -> ArgPool] : n \in 0..MaxArgs}

\* get_pest_parser_argument: (key, value), or a panic
get_pest_parser_argument(arg) ==
    IF arg.key = PathKey THEN [ok |-> FALSE, key |-> "", value |-> ""]
    ELSE IF arg.value = NotAString THEN [ok |-> FALSE, key |-> "", value |-> ""]
    ELSE [ok |-> TRUE, key |-> arg.key, value |-> arg.value]

\* mutant: each key checked on its own, so the same key may come twice
KeysAcceptedEach(k0, k1) ==
    k0 \in {"grammar", "interface"} /\ k1 \in {"grammar", "interface"}

\* the key check of pest_parser
KeysAccepted(k0, k1) ==
    \/ <<k0, k1>> = <<"grammar", "interface">>
    \/ <<k0, k1>> = <<"interface", "grammar">>

\* mutant: the swap left out, the values taken by position
AssignByPosition(k0, v0, v1) == <<v0, v1>>

\* the swap of pest_parser: <<grammar_file, interface>>
AssignByKey(k0, v0, v1) == IF k0 = "interface" THEN <<v1, v0>> ELSE <<v0, v1>>

(***************************************************************************)
(* The grammar compiler's output                                           *)
(***************************************************************************)
RulesOf(g) ==
    LET k == CHOOSE k \in 0..MaxRules : GrammarFile(k) = g
    IN  [j \in 1..k |-> RuleName(j)]

\* the alternatives in declaration order, the sentinel after eoiAt user rules
Alts(rules, eoiAt) ==
    SubSeq(rules, 1, eoiAt) \o <<Sentinel>> \o SubSeq(rules, eoiAt + 1, Len(rules))

RulePath(a) == <<Id("Rule"), Ws(" "), P("::"), Ws(" "), AltTok(a)>>

Gap(e) == IF e.closeGap THEN <<Ws("\n")>> ELSE <<>>

PreItem(e) ==
    CASE e.pre = "none" -> <<>>
      [] e.pre = "item" -> <<Id("const"), Id("_PEST_GRAMMAR"), P(":"), P("&"),
                             Id("str"), P("="), Txt("include_str"), P(";")>>
      [] e.pre = "brace" -> <<Id("mod"), Id("prelude"), P("{"), P("}")>>

Variant(a) ==
    IF a = Sentinel THEN <<Attr("#[doc = \"End-of-input\"]"), AltTok(a)>>
    ELSE <<AltTok(a)>>

EnumDecl(e, alts) ==
    <<Marker>>
    \o (IF e.hasDerive THEN <<DeriveOpen, DeriveList>> ELSE <<>>)
    \o <<Id("pub"), Id("enum"), Id("Rule"), P("{")>>
    \o Join([i \in 1..Len(alts) |-> Variant(alts[i])], <<P(","), Ws(" ")>>)
    \o (IF e.trail THEN <<P(",")>> ELSE <<>>)
    \o Gap(e) \o <<P("}")>>

Listing(e, elems) ==
    <<Id("impl"), Id("Rule"), P("{"), Id("pub"), Id("fn"), Id("all_rules"),
      P("("), P(")"), P("->"), P("&"), Txt("'static"), P("["), Id("Rule"), P("]"),
      P("{"), P("&"), P("[")>>
    \o Join([i \in 1..Len(elems) |-> RulePath(elems[i])], <<P(","), Ws(" ")>>)
    \o Gap(e) \o <<P("]"), P("}"), P("}")>>

Site(a) ==
    <<Id("pub"), Id("fn"), AltTok(a), P("("), Id("state"), P(")"), P("{"),
      Id("state"), P("."), Id("rule"), P("(")>>
    \o RulePath(a)
    \o <<P(","), Ws(" "), Id("f"), P(")"), P("}")>>

Arm(a) ==
    RulePath(a)
    \o <<Ws(" "), P("=>"), Ws(" "), Id("rules"), Ws(" "), P("::"), Ws(" "),
         AltTok(a), P("("), Id("state"), P(")")>>

Dispatcher(order) ==
    <<Id("match"), Id("rule"), P("{")>>
    \o Join([i \in 1..Len(order) |-> Arm(order[i])], <<P(","), Ws(" ")>>)
    \o <<P("}")>>

\* derive_parser(nodes, full): the compiler's output, or "error" for a grammar
\* file it cannot read
derive_parser(g, full, e) ==
    IF g \notin GrammarFiles THEN [ok |-> FALSE, text |-> <<>>]
    ELSE LET rules == RulesOf(g)
             alts == Alts(rules, e.eoiAt)
             arms == rules \o <<Sentinel>>
             text == PreItem(e)
                     \o EnumDecl(e, alts)
                     \o Listing(e, IF e.listEOI THEN alts ELSE rules)
                     \o (IF full /\ e.hasSites
                         THEN Flatten([i \in 1..Len(arms) |-> Site(arms[i])])
                         ELSE <<>>)
                     \o (IF full /\ e.hasMatch THEN Dispatcher(arms) ELSE <<>>)
         IN  [ok |-> TRUE, text |-> text]

(***************************************************************************)
(* enum_dispatch_tag_generator                                             *)
(***************************************************************************)
IsIdent(tok) == tok.t \in {"id", "raw"}

\* the variant list of an enum body: attributes, identifier, comma, ...
\* st: "item" a variant or the end may follow, "attrs" a variant must follow,
\*     "sep" a comma or the end may follow
RECURSIVE ParseVariants(_, _, _, _)
ParseVariants(inner, i, st, acc) ==
    IF i > Len(inner) THEN [ok |-> st # "attrs", idents |-> acc]
    ELSE IF st \in {"item", "attrs"} /\ inner[i].t = "attr"
         THEN ParseVariants(inner, i + 1, "attrs", acc)
    ELSE IF st \in {"item", "attrs"} /\ IsIdent(inner[i])
         THEN ParseVariants(inner, i + 1, "sep", Append(acc, inner[i]))
    ELSE IF st = "sep" /\ inner[i] = P(",")
         THEN ParseVariants(inner, i + 1, "item", acc)
    ELSE [ok |-> FALSE, idents |-> <<>>]

RECURSIVE SkipAttrs(_, _)
SkipAttrs(s, i) == IF Tok(s, i).t = "attr" THEN SkipAttrs(s, i + 1) ELSE i

\* parse_str::<ItemEnum>: the identifiers of the variants, in order
ParseItemEnum(slice) ==
    LET toks == NoWs(slice)
        a == SkipAttrs(toks, 1)
        h == IF Tok(toks, a) = Id("pub") THEN a + 1 ELSE a
        n == Len(toks)
    IN  IF /\ Tok(toks, h) = Id("enum")
           /\ Tok(toks, h + 1).t = "id"
           /\ Tok(toks, h + 2) = P("{")
           /\ n >= h + 3
           /\ toks[n] = P("}")
        THEN ParseVariants(SubSeq(toks, h + 3, n - 1), 1, "item", <<>>)
        ELSE [ok |-> FALSE, idents |-> <<>>]

\* quote! { #[derive(...)] pub struct #ident; }
StructDecl(ident) ==
    <<DeriveOpen, DeriveList, Id("pub"), Id("struct"), ident, P(";")>>

enum_start(raw_codes) == FindTok(raw_codes, Marker)

\* mutant: rfind, the last closing brace of the text
enum_end_last(raw_codes) ==
    LET at == {i \in 1..Len(raw_codes) : raw_codes[i] = P("}")}
    IN  IF at = {} THEN 0 ELSE CHOOSE i \in at : \A k \in at : k <= i

enum_end(raw_codes) == FindTok(raw_codes, P("}"))

\* the whole generator on the compiler's enumeration-only output
enum_dispatch_tag_generator(raw_codes) ==
    LET s == enum_start(raw_codes)
        e == enum_end(raw_codes)
        none == [ok |-> FALSE, slice |-> <<>>, decls |-> <<>>]
    IN  IF s = 0 \/ e = 0 THEN none            \* unreachable!()
        ELSE IF s > e THEN none                \* the slice s..=e panics or is empty
        ELSE LET raw == SubSeq(raw_codes, s, e)
                 parsed == ParseItemEnum(raw)
             IN  IF ~parsed.ok THEN [none EXCEPT !.slice = raw]
                 ELSE [ok |-> TRUE, slice |-> raw,
                       decls |-> Flatten([i \in 1..Len(parsed.idents) |->
                                             StructDecl(parsed.idents[i])])]

(***************************************************************************)
(* enum_dispatch_generated_enum_hooker                                     *)
(***************************************************************************)
Annotation(iface) == <<Attr("#[enum_dispatch("), Txt(iface), Attr(")]"), Ws("\r\n")>>

\* mutant: the annotation placed before the first attribute of the enumeration
insert_pos_at_marker(raw_codes) == FindTok(raw_codes, Marker)

\* mutant: unwrap_or, a text without a derive list gets the annotation in front
insert_pos_or_front(raw_codes) ==
    IF FindTok(raw_codes, DeriveOpen) = 0 THEN 1 ELSE FindTok(raw_codes, DeriveOpen)

\* raw_codes.find("#[derive("), 0 for None
enum_insert_pos(raw_codes) == FindTok(raw_codes, DeriveOpen)

InsertAnnotation(raw_codes, pos, iface) ==
    SubSeq(raw_codes, 1, pos - 1) \o Annotation(iface)
    \o SubSeq(raw_codes, pos, Len(raw_codes))

IsBlank(tok) == tok.t = "ws" /\ tok.v \in {" ", "\t"}
IsSpace(tok) == tok.t = "ws"

\* [[:blank:]]* when blankOnly, \s* otherwise: the first index not skipped
RECURSIVE SkipWs(_, _, _)
SkipWs(s, i, blankOnly) ==
    IF i <= Len(s) /\ (IF blankOnly THEN IsBlank(s[i]) ELSE IsSpace(s[i]))
    THEN SkipWs(s, i + 1, blankOnly)
    ELSE i

\* Rule[[:blank:]]*::[[:blank:]]* at i: the index after it, 0 for no match
RuleColon(s, i) ==
    IF Tok(s, i) # Id("Rule") THEN 0
    ELSE LET j == SkipWs(s, i + 1, TRUE)
         IN  IF Tok(s, j) = P("::") THEN SkipWs(s, j + 1, TRUE) ELSE 0

\* the rewrites in the order the hooker applies them
Passes == <<"arrow", "listing", "decl", "eoi_listing", "eoi_decl",
            "last_listing", "last_decl">>

\* the index of the last token of the match of pass p that starts at i, 0 for none
MatchEnd(p, s, i) ==
    LET k == RuleColon(s, i)
    IN CASE p = "arrow" -> IF s[i] = P("=>") THEN i ELSE 0
         [] p = "listing" ->
              IF k > 0 /\ Tok(s, k).t = "raw" /\ Tok(s, k + 1) = P(",")
              THEN k + 1 ELSE 0
         [] p = "decl" ->
              IF s[i].t = "raw" /\ Tok(s, i + 1) = P(",") THEN i + 1 ELSE 0
         [] p = "eoi_listing" ->
              IF k > 0 /\ Tok(s, k) = Id(Sentinel) /\ Tok(s, k + 1) = P(",")
              THEN k + 1 ELSE 0
         [] p = "eoi_decl" ->
              IF s[i] = Id(Sentinel) /\ Tok(s, SkipWs(s, i + 1, TRUE)) = P(",")
              THEN SkipWs(s, i + 1, TRUE) ELSE 0
         [] p = "last_listing" ->
              IF k > 0 /\ Tok(s, k).t = "raw"
                 /\ Tok(s, SkipWs(s, k + 1, FALSE)) = P("]")
              THEN SkipWs(s, k + 1, FALSE) ELSE 0
         [] p = "last_decl" ->
              IF s[i].t = "raw" /\ Tok(s, SkipWs(s, i + 1, FALSE)) = P("}")
              THEN SkipWs(s, i + 1, FALSE) ELSE 0

\* the capture group n of the match of pass p at i
Capture(p, s, i) ==
    IF p \in {"listing", "last_listing"} THEN s[RuleColon(s, i)].v
    ELSE IF p \in {"decl", "last_decl"} THEN s[i].v
    ELSE Sentinel

ListingPayload(tok) ==
    <<Id("Rule"), P("::"), tok, P("("), Id("crate"), P("::"), tok, Ws(" "),
      P("{"), P("}"), P(")")>>

DeclPayload(tok) == <<tok, P("("), Id("crate"), P("::"), tok, P(")")>>

\* the replacement string of pass p with $n expanded
Replacement(p, n) ==
    CASE p = "arrow" -> <<P("("), Id("_"), P(")"), Ws(" "), P("=>")>>
      [] p = "listing" -> ListingPayload(Raw(n)) \o <<P(","), Ws(" ")>>
      [] p = "decl" -> DeclPayload(Raw(n)) \o <<P(","), Ws(" ")>>
      [] p = "eoi_listing" -> ListingPayload(Id(Sentinel)) \o <<P(","), Ws(" ")>>
      [] p = "eoi_decl" -> DeclPayload(Id(Sentinel)) \o <<P(","), Ws(" ")>>
      [] p = "last_listing" -> ListingPayload(Raw(n)) \o <<P("]")>>
      [] p = "last_decl" -> DeclPayload(Raw(n)) \o <<P("}")>>

\* the concatenation of pieces[lo..hi]
RECURSIVE Concat(_, _, _)
Concat(pieces, lo, hi) ==
    IF lo > hi THEN <<>>
    ELSE IF lo = hi THEN pieces[lo]
    ELSE Concat(pieces, lo, (lo + hi) \div 2) \o Concat(pieces, (lo + hi) \div 2 + 1, hi)

\* mutant: replace instead of replace_all, only the leftmost match is taken
TakenFirstOnly(ends, i) ==
    /\ ends[i] > 0
    /\ \A j \in 1..(i - 1) : ends[j] = 0

\* a match is taken at i when the pattern matches there and no match taken
\* further left reaches i (ends[j] is MatchEnd at j)
RECURSIVE Taken(_, _)
Taken(ends, i) ==
    /\ ends[i] > 0
    /\ \A j \in 1..(i - 1) : ends[j] >= i => ~Taken(ends, j)

\* str::replace / Regex::replace_all: the matches from left to right, not
\* overlapping, each replaced; the rest of the text kept
ReplaceAll(p, s) ==
    LET ends == [i \in 1..Len(s) |-> MatchEnd(p, s, i)]
        cand == {i \in 1..Len(s) : ends[i] > 0}
        starts == {i \in cand : Taken(ends, i)}
        pieces == [i \in 1..Len(s) |->
                     IF i \in starts THEN Replacement(p, Capture(p, s, i))
                     ELSE IF \E j \in starts : j < i /\ i <= ends[j] THEN <<>>
                     ELSE <<s[i]>>]
    IN  Concat(pieces, 1, Len(s))

\* raw_codes after passes k..7, each text appended to acc
RECURSIVE ApplyPasses(_, _, _)
ApplyPasses(s, k, acc) ==
    IF k > Len(Passes) THEN acc
    ELSE LET next == ReplaceAll(Passes[k], s)
         IN  ApplyPasses(next, k + 1, Append(acc, next))

\* TokenStream::from_str: the delimiters of the text are balanced
Delimiters == {"(", ")", "[", "]", "{", "}"}

Closer(v) == CASE v = "(" -> ")" [] v = "[" -> "]" [] v = "{" -> "}"

RECURSIVE Balanced(_, _, _)
Balanced(s, i, stack) ==
    IF i > Len(s) THEN stack = <<>>
    ELSE IF s[i].t = "p" /\ s[i].v \in {"(", "[", "{"}
         THEN Balanced(s, i + 1, <<Closer(s[i].v)>> \o stack)
    ELSE IF s[i].t = "p" /\ s[i].v \in {")", "]", "}"}
         THEN /\ stack # <<>>
              /\ stack[1] = s[i].v
              /\ Balanced(s, i + 1, Tail(stack))
    ELSE Balanced(s, i + 1, stack)

\* the whole hooker on the compiler's full output: every text it goes through
enum_dispatch_generated_enum_hooker(raw_codes, iface) ==
    LET pos == enum_insert_pos(raw_codes)
        delims(text) == SelectSeq(text, LAMBDA x : x.t = "p" /\ x.v \in Delimiters)
    IN  IF pos = 0 THEN [ok |-> FALSE, stages |-> <<raw_codes>>]       \* unwrap()
        ELSE LET inserted == InsertAnnotation(raw_codes, pos, iface)
                 all == ApplyPasses(inserted, 1, <<raw_codes, inserted>>)
             IN  [ok |-> Balanced(delims(all[Len(all)]), 1, <<>>), stages |-> all]

(***************************************************************************)
(* pest_parser                                                             *)
(***************************************************************************)
\* quote! { #vis struct #ident; }
RootDecl == <<Id("pub"), Id("struct"), Id("LanguageParser"), P(";")>>

\* mutant: the two generated parts appended in the other order
AssembledSwapped(part1, part2, part3) == part1 \o part3 \o part2

\* ast_part1.extend(vec![ast_part2, ast_part3])
Assembled(part1, part2, part3) == part1 \o part2 \o part3

\* the compiler's output as the source comments show it: the enumeration with
\* the sentinel first, the listing of the user rules, one rule function per
\* rule and the dispatcher; only the enumeration carries a derive list
PestEnvs ==
    [pre : {"none", "item"}, hasDerive : {TRUE}, hasMatch : {TRUE},
     hasSites : {TRUE}, listEOI : {FALSE}, trail : BOOLEAN,
     closeGap : BOOLEAN, eoiAt : {0}]

\* the shapes a compiler of another version may produce
DriftEnvs ==
    [pre : {"none", "item", "brace"}, hasDerive : BOOLEAN, hasMatch : BOOLEAN,
     hasSites : BOOLEAN, listEOI : BOOLEAN, trail : BOOLEAN,
     closeGap : BOOLEAN, eoiAt : 0..MaxRules]

Fresh ==
    /\ pc = "start"
    /\ failure = "none"
    /\ calls = <<>>
    /\ grammar_file = ""
    /\ interface = ""
    /\ raw_enum = <<>>
    /\ ast_part2 = <<>>
    /\ stages = <<>>
    /\ ast_part3 = <<>>
    /\ output = <<>>

Init ==
    /\ args \in ArgLists
    /\ env \in PestEnvs
    /\ run = 1
    /\ prev = [pc |-> "none", output |-> <<>>]
    /\ Fresh

InitDrift ==
    /\ \E k \in 0..MaxRules :
          /\ args = <<[key |-> "grammar", value |-> GrammarFile(k)],
                      [key |-> "interface", value |-> InterfaceName]>>
          /\ env \in {e \in DriftEnvs : e.eoiAt <= k}
    /\ run = 1
    /\ prev = [pc |-> "none", output |-> <<>>]
    /\ Fresh

Abort(stage) ==
    /\ pc' = "aborted"
    /\ failure' = stage

\* lines 285-310: the argument checks and the assignment by key
Validate ==
    /\ pc = "start"
    /\ IF Len(args) # 2
       THEN Abort("args") /\ UNCHANGED <<grammar_file, interface>>
       ELSE LET a0 == get_pest_parser_argument(args[1])
                a1 == get_pest_parser_argument(args[2])
            IN  IF ~a0.ok \/ ~a1.ok \/ ~KeysAccepted(a0.key, a1.key)
                THEN Abort("args") /\ UNCHANGED <<grammar_file, interface>>
                ELSE /\ grammar_file' = AssignByKey(a0.key, a0.value, a1.value)[1]
                     /\ interface' = AssignByKey(a0.key, a0.value, a1.value)[2]
                     /\ pc' = "validated"
                     /\ UNCHANGED failure
    /\ UNCHANGED <<args, env, run, calls, raw_enum, ast_part2, stages, ast_part3,
                   output, prev>>

\* lines 317-323: ast_part2
TagGenerate ==
    /\ pc = "validated"
    /\ calls' = Append(calls, [full |-> FALSE, grammar |-> grammar_file])
    /\ \E c \in {derive_parser(grammar_file, FALSE, env)} :
       \E g \in {enum_dispatch_tag_generator(c.text)} :
           IF ~c.ok
           THEN Abort("compiler") /\ UNCHANGED <<raw_enum, ast_part2>>
           ELSE /\ raw_enum' = g.slice
                /\ IF g.ok
                   THEN ast_part2' = g.decls /\ pc' = "tagged" /\ UNCHANGED failure
                   ELSE Abort("tag") /\ UNCHANGED ast_part2
    /\ UNCHANGED <<args, env, run, grammar_file, interface, stages, ast_part3,
                   output, prev>>

\* lines 325-333: ast_part3
Hook ==
    /\ pc = "tagged"
    /\ calls' = Append(calls, [full |-> TRUE, grammar |-> grammar_file])
    /\ \E c \in {derive_parser(grammar_file, TRUE, env)} :
       \E h \in {enum_dispatch_generated_enum_hooker(c.text, interface)} :
           IF ~c.ok
           THEN Abort("compiler") /\ UNCHANGED <<stages, ast_part3>>
           ELSE /\ stages' = h.stages
                /\ IF h.ok
                   THEN /\ ast_part3' = h.stages[Len(h.stages)]
                        /\ pc' = "hooked"
                        /\ UNCHANGED failure
                   ELSE Abort("hook") /\ UNCHANGED ast_part3
    /\ UNCHANGED <<args, env, run, grammar_file, interface, raw_enum, ast_part2,
                   output, prev>>

\* lines 335-336: the returned token stream
Assemble ==
    /\ pc = "hooked"
    /\ output' = Assembled(RootDecl, ast_part2, ast_part3)
    /\ pc' = "done"
    /\ UNCHANGED <<args, env, run, failure, calls, grammar_file, interface,
                   raw_enum, ast_part2, stages, ast_part3, prev>>

\* the macro invoked once more on the same grammar, its two arguments in the
\* other order; no state of the first invocation survives
InvokeSwapped ==
    /\ run = 1
    /\ pc \in {"done", "aborted"}
    /\ Len(args) = 2
    /\ run' = 2
    /\ prev' = [pc |-> pc, output |-> output]
    /\ args' = <<args[2], args[1]>>
    /\ pc' = "start"
    /\ failure' = "none"
    /\ calls' = <<>>
    /\ grammar_file' = ""
    /\ interface' = ""
    /\ raw_enum' = <<>>
    /\ ast_part2' = <<>>
    /\ stages' = <<>>
    /\ ast_part3' = <<>>
    /\ output' = <<>>
    /\ UNCHANGED env

Next == Validate \/ TagGenerate \/ Hook \/ Assemble \/ InvokeSwapped

Spec == Init /\ [][Next]_vars

SpecDrift == InitDrift /\ [][Next]_vars

(***************************************************************************)
(* Reading the texts back: what the properties below speak about           *)
(***************************************************************************)
Clean(s) == SelectSeq(s, LAMBDA x : x.t \notin {"ws", "attr"})

IsOpen(tok) == tok.t = "p" /\ tok.v \in {"(", "[", "{"}
IsClose(tok) == tok.t = "p" /\ tok.v \in {")", "]", "}"}

\* s[a..j] opens as many delimiters as it closes
Level(s, a, j) ==
    Cardinality({k \in a..j : IsOpen(s[k])}) = Cardinality({k \in a..j : IsClose(s[k])})

\* the text between the opening delimiter at a and the delimiter closing it
Inside(s, a) ==
    LET closes == {j \in (a + 1)..Len(s) : Level(s, a, j)}
        c == CHOOSE j \in closes : \A k \in closes : j <= k
    IN  IF a \in 1..Len(s) /\ closes # {} THEN SubSeq(s, a + 1, c - 1) ELSE <<>>

\* the index of the last token of the first occurrence of pat in s, 0 for none
FindSeqEnd(s, pat) ==
    LET at == {i \in 1..(Len(s) - Len(pat) + 1) : SubSeq(s, i, i + Len(pat) - 1) = pat}
    IN  IF at = {} THEN 0
        ELSE (CHOOSE i \in at : \A k \in at : i <= k) + Len(pat) - 1

StripTrail(b) ==
    IF Len(b) > 0 /\ b[Len(b)] = P(",") THEN SubSeq(b, 1, Len(b) - 1) ELSE b

EnumBody(text) ==
    LET c == Clean(text)
    IN  StripTrail(Inside(c, FindSeqEnd(c, <<Id("enum"), Id("Rule"), P("{")>>)))

ListingBody(text) ==
    LET c == Clean(text)
    IN  StripTrail(Inside(c, FindSeqEnd(c, <<P("{"), P("&"), P("[")>>)))

MatchBody(text) ==
    LET c == Clean(text)
    IN  Inside(c, FindSeqEnd(c, <<Id("match"), Id("rule"), P("{")>>))

\* the names of the structs a text declares, in order
StructNames(text) ==
    LET idx == [i \in 1..Len(text) |-> i]
        at == SelectSeq(idx, LAMBDA i : i > 1 /\ text[i - 1] = Id("struct"))
    IN  [k \in 1..Len(at) |-> text[at[k]]]

Count(text, tok) == Cardinality({i \in 1..Len(text) : text[i] = tok})

ValidArgs == Len(args) = 2 /\ {args[1].key, args[2].key} = {"grammar", "interface"}

ValueOf(key) == (CHOOSE i \in 1..Len(args) : args[i].key = key)

GrammarValue == args[ValueOf("grammar")].value
InterfaceValue == args[ValueOf("interface")].value

\* the rule set of the run: the user rules, and the alternatives as declared
UserRules == RulesOf(grammar_file)
Declared == Alts(UserRules, env.eoiAt)

TagRan == Len(calls) >= 1 /\ failure # "compiler"
HookRan == Len(calls) = 2 /\ failure # "compiler"
Hooked == pc \in {"hooked", "done"}

(***************************************************************************)
(* Properties                                                              *)
(***************************************************************************)

\* C1: an argument list that is not exactly two name=value arguments with the
\* key set {grammar, interface} aborts the pipeline with an argument error,
\* with no derive_parser invocation made and no output produced.
C1_ArgumentErrorAbortsBeforeCompiler ==
    (pc # "start" /\ ~ValidArgs) =>
        /\ pc = "aborted"
        /\ failure = "args"
        /\ calls = <<>>
        /\ output = <<>> /\ ast_part2 = <<>> /\ ast_part3 = <<>>

C1_Witness ==
    /\ pc = "aborted" /\ failure = "args"
    /\ Len(args) = 2 /\ args[1].key = "grammar" /\ args[2].key = "grammar"

\* C2: the grammar file and the interface are taken by key, and the invocation
\* with the two arguments in the other order ends the same way with the same
\* output.
C2_AssignedByKeyNotPosition ==
    /\ (ValidArgs /\ pc # "start" /\ failure # "args") =>
           /\ grammar_file = GrammarValue
           /\ interface = InterfaceValue
           /\ \A i \in 1..Len(calls) : calls[i].grammar = GrammarValue
           /\ pc = "done" =>
                 \E i \in 1..(Len(output) - 1) :
                     /\ output[i] = Attr("#[enum_dispatch(")
                     /\ output[i + 1] = Txt(InterfaceValue)
    /\ (ValidArgs /\ run = 2 /\ pc \in {"done", "aborted"}) =>
           /\ pc = prev.pc
           /\ output = prev.output

C2_Witness ==
    /\ run = 2 /\ pc = "done" /\ args[1].key = "interface"
    /\ prev.pc = "done" /\ output # <<>>
    /\ args[1].value # args[2].value

\* C3: for a grammar with user rules R1..Rn whose compiler output declares the
\* sentinel and those rules, the tag generator emits exactly n+1 struct
\* declarations, one per alternative, in declaration order, each named as its
\* alternative, no name twice, the sentinel once.
C3_OneMarkerPerAlternative ==
    TagRan =>
        /\ failure # "tag"
        /\ LET names == StructNames(ast_part2)
               n == Len(UserRules)
           IN  /\ Len(names) = n + 1
               /\ Count(ast_part2, Id("struct")) = n + 1
               /\ ast_part2 = Flatten([i \in 1..(n + 1) |->
                      <<DeriveOpen, DeriveList, Id("pub"), Id("struct"),
                        AltTok(Declared[i]), P(";")>>])
               /\ \A i \in 1..(n + 1) : names[i] = AltTok(Declared[i])
               /\ \A i, j \in 1..(n + 1) : names[i] = names[j] => i = j
               /\ Cardinality({i \in 1..(n + 1) : names[i] = Id(Sentinel)}) = 1

C3_Witness ==
    /\ pc = "tagged" /\ UserRules = <<>>
    /\ StructNames(ast_part2) = <<Id(Sentinel)>>

\* C5: every arm "Alternative => action" of the dispatcher has become
\* "Alternative(_) => action", for the sentinel as for the user rules, each
\* arm with exactly one binding pattern.
C5_EveryArmBindsPayload ==
    Hooked =>
        LET arms == UserRules \o <<Sentinel>>
            before(a) == <<Id("Rule"), P("::"), AltTok(a), P("=>"), Id("rules"),
                           P("::"), AltTok(a), P("("), Id("state"), P(")")>>
            after(a) == <<Id("Rule"), P("::"), AltTok(a), P("("), Id("_"), P(")"),
                          P("=>"), Id("rules"), P("::"), AltTok(a), P("("),
                          Id("state"), P(")")>>
        IN  /\ MatchBody(stages[1])
                 = Join([i \in 1..Len(arms) |-> before(arms[i])], <<P(",")>>)
            /\ MatchBody(ast_part3)
                 = Join([i \in 1..Len(arms) |-> after(arms[i])], <<P(",")>>)

C5_Witness ==
    /\ pc = "done" /\ Len(UserRules) >= 1
    /\ Count(stages[1], P("=>")) = Len(UserRules) + 1
    /\ Count(ast_part3, Id("_")) = Len(UserRules) + 1

\* the derive list that belongs to the rule enumeration
EnumDerivePos(text) ==
    LET at == {i \in 1..Len(text) :
                 /\ text[i] = DeriveOpen
                 /\ SubSeq(text, i + 2, i + 4) = <<Id("pub"), Id("enum"), Id("Rule")>>}
    IN  IF at = {} THEN 0 ELSE CHOOSE i \in at : TRUE

\* C6: the hooker inserts the dispatch annotation once, with the interface
\* name, immediately before the derive list of the rule enumeration, and that
\* step leaves the text before and after the insertion point as it was.
C6_AnnotationBeforeEnumDerive ==
    Hooked =>
        LET raw == stages[1]
            pos == EnumDerivePos(raw)
            note == <<Attr("#[enum_dispatch("), Txt(InterfaceValue), Attr(")]")>>
        IN  /\ pos > 0
            /\ SubSeq(stages[2], 1, pos - 1) = SubSeq(raw, 1, pos - 1)
            /\ NoWs(SubSeq(stages[2], pos, pos + 3)) = note
            /\ SubSeq(stages[2], pos + 4, Len(stages[2])) = SubSeq(raw, pos, Len(raw))
            /\ Count(ast_part3, Attr("#[enum_dispatch(")) = 1
            /\ LET c == NoWs(ast_part3)
               IN  FindSeqEnd(c, note \o <<DeriveOpen, DeriveList, Id("pub"),
                                          Id("enum"), Id("Rule")>>) > 0

C6_Witness ==
    /\ pc = "done" /\ env.pre = "item"
    /\ EnumDerivePos(stages[1]) > 1
    /\ Len(stages[2]) = Len(stages[1]) + 4

\* C7: a successful run has invoked the compiler exactly twice, first for the
\* enumeration only, then for the full implementation, both with the grammar
\* value, and returns the root declaration, the marker declarations and the
\* rewritten implementation, in this order and nothing else.
C7_TwoCompilesThenConcatenation ==
    /\ Len(calls) <= 2
    /\ pc = "done" =>
          /\ ValidArgs
          /\ calls = <<[full |-> FALSE, grammar |-> GrammarValue],
                       [full |-> TRUE, grammar |-> GrammarValue]>>
          /\ stages[1] = derive_parser(GrammarValue, TRUE, env).text
          /\ ast_part3 = stages[Len(stages)]
          /\ StructNames(ast_part2) = [i \in 1..Len(Declared) |-> AltTok(Declared[i])]
          /\ output = <<Id("pub"), Id("struct"), Id("LanguageParser"), P(";")>>
                      \o ast_part2 \o ast_part3
    /\ pc \in {"hooked", "done"} => Len(calls) = 2
    /\ pc = "tagged" => calls = <<[full |-> FALSE, grammar |-> grammar_file]>>

C7_Witness ==
    /\ pc = "done" /\ Len(calls) = 2
    /\ ast_part2 # <<>> /\ ast_part3 # <<>>
    /\ Len(output) = 4 + Len(ast_part2) + Len(ast_part3)

\* the alternative a carrying the payload type ty, as the declaration has it
DeclForm(a, ty) == <<AltTok(a), P("("), Id("crate"), P("::"), ty, P(")")>>

\* the element a of the listing, constructing its payload
ListingForm(a) ==
    <<Id("Rule"), P("::"), AltTok(a), P("("), Id("crate"), P("::"), AltTok(a),
      P("{"), P("}"), P(")")>>

\* C4: after all rewrite passes the enumeration declares one alternative per
\* rule, each carrying exactly one payload, whose type is the marker struct of
\* the same name.
C4_OnePayloadPerAlternative ==
    Hooked =>
        LET markers == StructNames(ast_part2)
        IN  /\ Len(markers) = Len(Declared)
            /\ EnumBody(ast_part3)
                 = Join([i \in 1..Len(Declared) |-> DeclForm(Declared[i], markers[i])],
                        <<P(",")>>)

\* C8: the text the tag generator parses is the slice from the first marker
\* to the first "}" after that marker.
C8_SliceEndsAtCloseAfterMarker ==
    LET text == derive_parser(grammar_file, FALSE, env).text
        m == FindTok(text, Marker)
        after == {j \in (m + 1)..Len(text) : text[j] = P("}")}
        close == CHOOSE j \in after : \A k \in after : j <= k
    IN  (TagRan /\ m > 0 /\ after # {}) => raw_enum = SubSeq(text, m, close)

\* C9: after all rewrite passes every alternative of the declaration and
\* every element of the listing is in payload form exactly once, the sentinel
\* and the final element included.
C9_EveryElementInPayloadForm ==
    Hooked =>
        LET listed == IF env.listEOI THEN Declared ELSE UserRules
        IN  /\ EnumBody(ast_part3)
                 = Join([i \in 1..Len(Declared) |->
                            DeclForm(Declared[i], AltTok(Declared[i]))], <<P(",")>>)
            /\ ListingBody(ast_part3)
                 = Join([i \in 1..Len(listed) |-> ListingForm(listed[i])], <<P(",")>>)

\* the pattern of pass p occurs nowhere in the text
PatternAbsent(p, text) == \A i \in 1..Len(text) : MatchEnd(p, text, i) = 0

\* a pass whose pattern the compiler's output lacks leaves the text as it was
AbsentPassesChangeNothing ==
    \A k \in 1..Len(Passes) :
        PatternAbsent(Passes[k], stages[1]) => stages[k + 2] = stages[k + 1]

\* C10 as stated: each of the steps a-e, when its pattern is absent from the
\* compiler's output, changes nothing and raises no error, and the hooker
\* still returns an output.
C10_EveryAbsentStepIsSilent ==
    HookRan =>
        /\ failure # "hook"
        /\ Len(stages) = Len(Passes) + 2
        /\ FindTok(stages[1], DeriveOpen) = 0 => stages[2] = stages[1]
        /\ AbsentPassesChangeNothing

\* C10 as amended: the steps b-e are silent when their pattern is absent; the
\* annotation step a aborts the hooker when the text has no derive list.
C10_AbsentRewritesSilentAnnotationAborts ==
    HookRan =>
        IF FindTok(stages[1], DeriveOpen) = 0
        THEN /\ pc = "aborted" /\ failure = "hook"
             /\ stages = <<derive_parser(grammar_file, TRUE, env).text>>
             /\ ast_part3 = <<>> /\ output = <<>>
        ELSE /\ failure # "hook"
             /\ Len(stages) = Len(Passes) + 2
             /\ AbsentPassesChangeNothing
             /\ ast_part3 = stages[Len(stages)]

C10_Witness ==
    /\ pc = "done" /\ ~env.hasMatch /\ ~env.hasSites
    /\ UserRules = <<>>
    /\ \A k \in {1, 2, 3, 6, 7} : PatternAbsent(Passes[k], stages[1])
    /\ stages[Len(stages)] # stages[2]

====
